---- MODULE Spec2Model ----
(***************************************************************************)
(* mytable: a flat file of fixed-size blocks (Table), the record contract   *)
(* over it (TableTrait) and the binary-tree index stored through both       *)
(* (TableIndex).                                                            *)
(*                                                                          *)
(* A table file is the sequence of its blocks; a block is the sequence of   *)
(* the words of the record stored in it.  Slot idx of the code (0-based)    *)
(* is element idx + 1 of the sequence.  A Result is a record whose field    *)
(* err is "Ok" or the io::ErrorKind of the error; a panic (an unwrap of an  *)
(* Err) is the err "panic".                                                 *)
(***************************************************************************)
EXTENDS Integers, Sequences, FiniteSets, TLC

\* Bounds of the model: the nodes of the index, the rows of the table.
MaxNodes == 3
MaxRows == 3

\* The values indexed.  The code only compares them, so three of them give
\* every order of the values of three nodes.
Values == {1, 2, 3}
\* The table ids indexed: 0 (which add does not refuse) and two records.
Targets == {0, 1, 2}
\* The table ids of the traversals, which only tell 0 from the others.
TraversalTargets == {0, 1}
\* Range bounds of iter_between: the stored values and one above them all.
RangeValues == {1, 2, 3, 4}
\* The values added and excluded between the pulls of a traversal: a node on
\* either side of another.
InterleavedValues == {1, 2}
\* Payloads of the Person records of the tests (a name is the code of a
\* Varchar<20> value).
Names == {1, 2}
Ages == {32, 33}
\* The ages of the records of a table sorted by age, and the values searched
\* for: the ages, one below them all and one above.
SortKeys == {1, 2, 3}
SortTargets == {0, 1, 2, 3, 4}

VARIABLES
    index,   \* the index table file: blocks of TableIndex records
    ret,     \* the last TableIndex call: its name, arguments and outcome
    table,   \* a table file of Person records
    tret,    \* the last call on table and its outcome
    written, \* per slot of table, the record insert or update wrote last
    trav     \* a traversal of the index being pulled by its caller

indexVars == <<index, ret>>
tableVars == <<table, tret, written>>
vars == <<index, ret, table, tret, written, trav>>

----------------------------------------------------------------------------
\* Record layouts.

\* TableIndex<T>: five words.
IndexBlockSize == 5
\* Person {id, name, age}: three words.
PersonBlockSize == 3

TableIndex_new(value, table_id) ==
    [id |-> 0, value |-> value, table_id |-> table_id, left |-> 0, right |-> 0]

Person_new(name, age) == [id |-> 0, name |-> name, age |-> age]

IsIndexRec(rec) == "table_id" \in DOMAIN rec

\* The record's words, in field order.
as_bytes(rec) ==
    IF IsIndexRec(rec)
    THEN <<rec.id, rec.value, rec.table_id, rec.left, rec.right>>
    ELSE <<rec.id, rec.name, rec.age>>

\* The record read back from a block; the block size tells the type.
from_bytes(block) ==
    IF Len(block) = IndexBlockSize
    THEN [id |-> block[1], value |-> block[2], table_id |-> block[3],
          left |-> block[4], right |-> block[5]]
    ELSE [id |-> block[1], name |-> block[2], age |-> block[3]]

set_id(rec, id) == [rec EXCEPT !.id = id]

----------------------------------------------------------------------------
\* Table: the file of blocks.

Table_size(file) == Len(file)

Table_empty(file) == Table_size(file) = 0

\* read_exact_at: a read past the end of the file fails.
Table_get(file, idx) ==
    IF idx < Len(file)
    THEN [err |-> "Ok", block |-> file[idx + 1]]
    ELSE [err |-> "UnexpectedEof", block |-> <<>>]

ZeroBlock(n) == [i \in 1..n |-> 0]

\* write_all_at: writes the block at slot idx; a write at or past the end of
\* the file extends it, the slots skipped reading as zeros.
Table_update(file, block, idx) ==
    [i \in 1..(IF idx + 1 > Len(file) THEN idx + 1 ELSE Len(file)) |->
        IF i = idx + 1 THEN block
        ELSE IF i <= Len(file) THEN file[i]
        ELSE ZeroBlock(Len(block))]

\* append storing the slot's id in the block's first word.
Table_append_with_id(file, block) ==
    [file |-> Append(file, [block EXCEPT ![1] = Table_size(file) + 1]),
     idx |-> Table_size(file)]

Table_append(file, block) ==
    [file |-> Table_update(file, block, Table_size(file)),
     idx |-> Table_size(file)]

----------------------------------------------------------------------------
\* TableTrait: records in a table.

get_first_id(file) ==
    IF Table_empty(file)
    THEN [err |-> "NotFound", id |-> 0]
    ELSE [err |-> "Ok", id |-> 1]

get_index_by_id(file, id) ==
    IF id > 0 /\ id <= Table_size(file)
    THEN [err |-> "Ok", idx |-> id - 1]
    ELSE [err |-> "NotFound", idx |-> 0]

NoRec == [id |-> 0]

\* get reading slot id in place of slot id - 1.
get_wrong_slot(file, id) ==
    IF id > Table_size(file)
    THEN [err |-> "NotFound", rec |-> NoRec]
    ELSE LET i == get_index_by_id(file, id)
         IN  IF i.err # "Ok"
             THEN [err |-> i.err, rec |-> NoRec]
             ELSE LET b == Table_get(file, i.idx + 1)
                  IN  IF b.err # "Ok"
                      THEN [err |-> b.err, rec |-> NoRec]
                      ELSE [err |-> "Ok", rec |-> from_bytes(b.block)]

get(file, id) ==
    IF id > Table_size(file)
    THEN [err |-> "NotFound", rec |-> NoRec]
    ELSE LET i == get_index_by_id(file, id)
         IN  IF i.err # "Ok"
             THEN [err |-> i.err, rec |-> NoRec]
             ELSE LET b == Table_get(file, i.idx)
                  IN  IF b.err # "Ok"
                      THEN [err |-> b.err, rec |-> NoRec]
                      ELSE [err |-> "Ok", rec |-> from_bytes(b.block)]

get_first(file) == get(file, 1)

\* insert without the second write: the block keeps the id 0.
insert_no_rewrite(file, rec) ==
    IF rec.id # 0
    THEN [err |-> "InvalidInput", file |-> file, rec |-> rec, id |-> 0]
    ELSE LET a == Table_append(file, as_bytes(rec))
             r == set_id(rec, a.idx + 1)
         IN  [err |-> "Ok", file |-> a.file, rec |-> r, id |-> r.id]

\* insert without the check of the id.
insert_unchecked(file, rec) ==
    LET a == Table_append(file, as_bytes(rec))
        r == set_id(rec, a.idx + 1)
    IN  [err |-> "Ok",
         file |-> Table_update(a.file, as_bytes(r), a.idx),
         rec |-> r,
         id |-> r.id]

\* insert: append the record, set its id to slot + 1, write it again.
insert(file, rec) ==
    IF rec.id # 0
    THEN [err |-> "InvalidInput", file |-> file, rec |-> rec, id |-> 0]
    ELSE LET a == Table_append(file, as_bytes(rec))
             r == set_id(rec, a.idx + 1)
         IN  [err |-> "Ok",
              file |-> Table_update(a.file, as_bytes(r), a.idx),
              rec |-> r,
              id |-> r.id]

\* update storing the record without its id.
update_clears_id(file, rec) ==
    LET i == get_index_by_id(file, rec.id)
    IN  IF i.err # "Ok"
        THEN [err |-> i.err, file |-> file]
        ELSE [err |-> "Ok",
              file |-> Table_update(file, as_bytes(set_id(rec, 0)), i.idx)]

\* update writing the slot after the record's.
update_next_slot(file, rec) ==
    LET i == get_index_by_id(file, rec.id)
    IN  IF i.err # "Ok"
        THEN [err |-> i.err, file |-> file]
        ELSE [err |-> "Ok",
              file |-> Table_update(file, as_bytes(rec), i.idx + 1)]

update(file, rec) ==
    LET i == get_index_by_id(file, rec.id)
    IN  IF i.err # "Ok"
        THEN [err |-> i.err, file |-> file]
        ELSE [err |-> "Ok", file |-> Table_update(file, as_bytes(rec), i.idx)]

\* Table::iter_between: the blocks of the slots idx_from .. idx_to - 1, each
\* read by get(idx).unwrap() when it is pulled.
RECURSIVE Table_iter_between(_, _, _)
Table_iter_between(file, idx_from, idx_to) ==
    IF idx_from < idx_to
    THEN LET b == Table_get(file, idx_from)
         IN  IF b.err # "Ok"
             THEN [err |-> "panic", items |-> <<>>]
             ELSE LET rest == Table_iter_between(file, idx_from + 1, idx_to)
                  IN  [err |-> rest.err, items |-> <<b.block>> \o rest.items]
    ELSE [err |-> "Ok", items |-> <<>>]

Table_iter(file) == Table_iter_between(file, 0, Table_size(file))

\* The extractor handed to find_sorted: the age of the record in the block.
get_value(block) == from_bytes(block).age

\* find_sorted stepping over the blocks equal to the value.
RECURSIVE find_sorted_loop_upper(_, _, _, _, _)
find_sorted_loop_upper(file, value, idx, size, probes) ==
    IF size > 0
    THEN LET b == Table_get(file, idx + (size \div 2))
         IN  IF b.err # "Ok"
             THEN [err |-> "panic", idx |-> idx, probes |-> probes]
             ELSE IF value >= get_value(b.block)
                  THEN find_sorted_loop_upper(file, value, idx + (size \div 2) + 1,
                                              (size \div 2) + (size % 2) - 1, probes + 1)
                  ELSE find_sorted_loop_upper(file, value, idx, size \div 2, probes + 1)
    ELSE [err |-> "Ok", idx |-> idx, probes |-> probes]

\* The loop of find_sorted on the window of size slots from idx; probes
\* counts the blocks read.
RECURSIVE find_sorted_loop(_, _, _, _, _)
find_sorted_loop(file, value, idx, size, probes) ==
    IF size > 0
    THEN LET b == Table_get(file, idx + (size \div 2))
         IN  IF b.err # "Ok"
             THEN [err |-> "panic", idx |-> idx, probes |-> probes]
             ELSE IF value > get_value(b.block)
                  THEN find_sorted_loop(file, value, idx + (size \div 2) + 1,
                                        (size \div 2) + (size % 2) - 1, probes + 1)
                  ELSE find_sorted_loop(file, value, idx, size \div 2, probes + 1)
    ELSE [err |-> "Ok", idx |-> idx, probes |-> probes]

find_sorted(file, value) == find_sorted_loop(file, value, 0, Table_size(file), 0)

\* TableTrait::all: the records of Table::iter.
TableTrait_all(file) ==
    LET r == Table_iter(file)
    IN  [err |-> r.err, items |-> [k \in DOMAIN r.items |-> from_bytes(r.items[k])]]

\* iter_between scanning from the first slot.
TableTrait_iter_between_from_start(file, sorted_value_from, sorted_value_to) ==
    LET idx_to == find_sorted(file, sorted_value_to)
    IN  IF idx_to.err # "Ok"
        THEN [err |-> "panic", items |-> <<>>]
        ELSE LET r == Table_iter_between(file, 0, idx_to.idx)
             IN  [err |-> r.err,
                  items |-> [k \in DOMAIN r.items |-> from_bytes(r.items[k])]]

\* TableTrait::iter_between: two searches, then the scan of the slots
\* between the two indices found.
TableTrait_iter_between(file, sorted_value_from, sorted_value_to) ==
    LET idx_from == find_sorted(file, sorted_value_from)
        idx_to == find_sorted(file, sorted_value_to)
    IN  IF idx_from.err # "Ok" \/ idx_to.err # "Ok"
        THEN [err |-> "panic", items |-> <<>>]
        ELSE LET r == Table_iter_between(file, idx_from.idx, idx_to.idx)
             IN  [err |-> r.err,
                  items |-> [k \in DOMAIN r.items |-> from_bytes(r.items[k])]]

----------------------------------------------------------------------------
\* TableIndex: the binary tree stored in the index table.

\* _bind with the comparison turned round.
RECURSIVE bind_loop_reversed(_, _, _, _)
bind_loop_reversed(file, value, record_id, id) ==
    IF id > 0
    THEN LET g == get(file, id)
         IN  IF g.err # "Ok"
             THEN [err |-> "panic", file |-> file]
             ELSE LET rec == g.rec
                      goLeft == value > rec.value
                      next == IF goLeft THEN rec.left ELSE rec.right
                      rec2 == IF next # 0 THEN rec
                              ELSE IF goLeft
                                   THEN [rec EXCEPT !.left = record_id]
                                   ELSE [rec EXCEPT !.right = record_id]
                  IN  IF next = 0
                      THEN LET u == update(file, rec2)
                           IN  IF u.err # "Ok"
                               THEN [err |-> "panic", file |-> file]
                               ELSE [err |-> "Ok", file |-> u.file]
                      ELSE bind_loop_reversed(file, value, record_id, next)
    ELSE [err |-> "Ok", file |-> file]

\* _bind with equal values sent left.
RECURSIVE bind_loop_ties_left(_, _, _, _)
bind_loop_ties_left(file, value, record_id, id) ==
    IF id > 0
    THEN LET g == get(file, id)
         IN  IF g.err # "Ok"
             THEN [err |-> "panic", file |-> file]
             ELSE LET rec == g.rec
                      goLeft == value <= rec.value
                      next == IF goLeft THEN rec.left ELSE rec.right
                      rec2 == IF next # 0 THEN rec
                              ELSE IF goLeft
                                   THEN [rec EXCEPT !.left = record_id]
                                   ELSE [rec EXCEPT !.right = record_id]
                  IN  IF next = 0
                      THEN LET u == update(file, rec2)
                           IN  IF u.err # "Ok"
                               THEN [err |-> "panic", file |-> file]
                               ELSE [err |-> "Ok", file |-> u.file]
                      ELSE bind_loop_ties_left(file, value, record_id, next)
    ELSE [err |-> "Ok", file |-> file]

\* _bind linking the new node to the node it starts from, whatever that
\* node's child is.
bind_loop_no_descent(file, value, record_id, id) ==
    LET g == get(file, id)
    IN  IF g.err # "Ok"
        THEN [err |-> "panic", file |-> file]
        ELSE LET rec2 == IF value < g.rec.value
                         THEN [g.rec EXCEPT !.left = record_id]
                         ELSE [g.rec EXCEPT !.right = record_id]
                 u == update(file, rec2)
             IN  IF u.err # "Ok"
                 THEN [err |-> "panic", file |-> file]
                 ELSE [err |-> "Ok", file |-> u.file]

\* The descent of _bind from node id: the first absent child on the way
\* 'value < rec.value goes left, otherwise right' is set to record_id.
RECURSIVE bind_loop(_, _, _, _)
bind_loop(file, value, record_id, id) ==
    IF id > 0
    THEN LET g == get(file, id)
         IN  IF g.err # "Ok"
             THEN [err |-> "panic", file |-> file]
             ELSE LET rec == g.rec
                      goLeft == value < rec.value
                      next == IF goLeft THEN rec.left ELSE rec.right
                      rec2 == IF next # 0 THEN rec
                              ELSE IF goLeft
                                   THEN [rec EXCEPT !.left = record_id]
                                   ELSE [rec EXCEPT !.right = record_id]
                  IN  IF next = 0
                      THEN LET u == update(file, rec2)
                           IN  IF u.err # "Ok"
                               THEN [err |-> "panic", file |-> file]
                               ELSE [err |-> "Ok", file |-> u.file]
                      ELSE bind_loop(file, value, record_id, next)
    ELSE [err |-> "Ok", file |-> file]

\* _bind descending from the first record even when that is the new one.
bind_from_any(file, value, record_id) ==
    LET f == get_first_id(file)
    IN  IF f.err # "Ok"
        THEN [err |-> "panic", file |-> file]
        ELSE bind_loop(file, value, record_id, f.id)

bind(file, value, record_id) ==
    LET f == get_first_id(file)
    IN  IF f.err # "Ok"
        THEN [err |-> "panic", file |-> file]
        ELSE IF f.id # record_id
             THEN bind_loop(file, value, record_id, f.id)
             ELSE [err |-> "Ok", file |-> file]

add(file, value, table_id) ==
    LET i == insert(file, TableIndex_new(value, table_id))
    IN  IF i.err # "Ok"
        THEN [err |-> i.err, file |-> file]
        ELSE bind(i.file, value, i.id)

\* The iterator of _iter_by_value is the id of the node to visit next.
iter_by_value(file, value) ==
    LET f == get_first_id(file)
    IN  IF f.err # "Ok" THEN [err |-> "panic", id |-> 0]
        ELSE [err |-> "Ok", id |-> f.id]

\* _iter_by_value going on from the left child of a node it yields.
RECURSIVE iter_by_value_next_left(_, _, _)
iter_by_value_next_left(file, value, id) ==
    IF id > 0
    THEN LET g == get(file, id)
         IN  IF g.err # "Ok"
             THEN [err |-> "panic", some |-> FALSE, rec |-> NoRec, id |-> id]
             ELSE IF value < g.rec.value
                  THEN iter_by_value_next_left(file, value, g.rec.left)
                  ELSE IF value = g.rec.value
                       THEN [err |-> "Ok", some |-> TRUE, rec |-> g.rec,
                             id |-> g.rec.left]
                       ELSE iter_by_value_next_left(file, value, g.rec.right)
    ELSE [err |-> "Ok", some |-> FALSE, rec |-> NoRec, id |-> id]

\* One pull: the next node with the value on the descent, and the id to go
\* on from.
RECURSIVE iter_by_value_next(_, _, _)
iter_by_value_next(file, value, id) ==
    IF id > 0
    THEN LET g == get(file, id)
         IN  IF g.err # "Ok"
             THEN [err |-> "panic", some |-> FALSE, rec |-> NoRec, id |-> id]
             ELSE IF value < g.rec.value
                  THEN iter_by_value_next(file, value, g.rec.left)
                  ELSE IF value = g.rec.value
                       THEN [err |-> "Ok", some |-> TRUE, rec |-> g.rec,
                             id |-> g.rec.right]
                       ELSE iter_by_value_next(file, value, g.rec.right)
    ELSE [err |-> "Ok", some |-> FALSE, rec |-> NoRec, id |-> id]

\* search_many without the filter on table_id.
search_many_next_unfiltered(file, value, id) ==
    iter_by_value_next(file, value, id)

\* One pull of search_many: the pulls of _iter_by_value up to the first
\* record with table_id > 0.
RECURSIVE search_many_next(_, _, _)
search_many_next(file, value, id) ==
    LET n == iter_by_value_next(file, value, id)
    IN  IF n.err # "Ok" \/ ~n.some THEN n
        ELSE IF n.rec.table_id > 0 THEN n
        ELSE search_many_next(file, value, n.id)

\* search_many pulled to its end: the table ids yielded (out) and the
\* nodes they were read from.
RECURSIVE search_many_drain(_, _, _)
search_many_drain(file, value, id) ==
    LET n == search_many_next(file, value, id)
    IN  IF n.err # "Ok" THEN [err |-> "panic", out |-> <<>>, nodes |-> <<>>]
        ELSE IF ~n.some THEN [err |-> "Ok", out |-> <<>>, nodes |-> <<>>]
        ELSE LET r == search_many_drain(file, value, n.id)
             IN  [err |-> r.err,
                  out |-> <<n.rec.table_id>> \o r.out,
                  nodes |-> <<n.rec.id>> \o r.nodes]

\* search_many yielding the newest record first.
search_many_newest_first(file, value) ==
    LET it == iter_by_value(file, value)
        r == search_many_drain(file, value, it.id)
        n == Len(r.nodes)
    IN  IF it.err # "Ok" THEN [err |-> "panic", out |-> <<>>, nodes |-> <<>>]
        ELSE [err |-> r.err,
              out |-> [k \in 1..n |-> r.out[n + 1 - k]],
              nodes |-> [k \in 1..n |-> r.nodes[n + 1 - k]]]

search_many(file, value) ==
    LET it == iter_by_value(file, value)
    IN  IF it.err # "Ok" THEN [err |-> "panic", out |-> <<>>, nodes |-> <<>>]
        ELSE search_many_drain(file, value, it.id)

search_one(file, value) ==
    LET it == iter_by_value(file, value)
    IN  IF it.err # "Ok" THEN [err |-> "panic", out |-> <<>>, nodes |-> <<>>]
        ELSE LET n == search_many_next(file, value, it.id)
             IN  IF n.err # "Ok"
                 THEN [err |-> "panic", out |-> <<>>, nodes |-> <<>>]
                 ELSE IF n.some
                      THEN [err |-> "Ok", out |-> <<n.rec.table_id>>,
                            nodes |-> <<n.rec.id>>]
                      ELSE [err |-> "NotFound", out |-> <<>>, nodes |-> <<>>]

\* The search of exclude taking the first record with the value.
exclude_find_any(file, value, table_id, id) ==
    iter_by_value_next(file, value, id)

\* The search of exclude: the first record that _iter_by_value yields with
\* the given table_id.
RECURSIVE exclude_find(_, _, _, _)
exclude_find(file, value, table_id, id) ==
    LET n == iter_by_value_next(file, value, id)
    IN  IF n.err # "Ok" \/ ~n.some THEN n
        ELSE IF n.rec.table_id = table_id THEN n
        ELSE exclude_find(file, value, table_id, n.id)

exclude(file, value, table_id) ==
    LET it == iter_by_value(file, value)
    IN  IF it.err # "Ok" THEN [err |-> "panic", file |-> file]
        ELSE LET n == exclude_find(file, value, table_id, it.id)
             IN  IF n.err # "Ok" THEN [err |-> "panic", file |-> file]
                 ELSE IF n.some
                      THEN update(file, [n.rec EXCEPT !.table_id = 0])
                      ELSE [err |-> "NotFound", file |-> file]

----------------------------------------------------------------------------
\* The traversals.  The stack holds frames [rec, phase]: the copy of a node
\* read when the frame was pushed, and 0 (descend left), 1 (emit), 2
\* (descend right) or 3 (pop).  Its last element is the top.

Frame(rec, phase) == [rec |-> rec, phase |-> phase]

SetPhase(stack, phase) == [stack EXCEPT ![Len(stack)].phase = phase]

Pop(stack) == SubSeq(stack, 1, Len(stack) - 1)

NoItem(err, stack) ==
    [err |-> err, some |-> FALSE, item |-> 0, rec |-> NoRec, stack |-> stack]

\* The stack of iter at creation: the first record, unwrapped.
iter(file) ==
    LET g == get_first(file)
    IN  IF g.err # "Ok" THEN [err |-> "panic", stack |-> <<>>]
        ELSE [err |-> "Ok", stack |-> <<Frame(g.rec, 0)>>]

\* One pull of iter: the loop over the stack up to the next live node.
RECURSIVE iter_next(_, _)
iter_next(file, stack) ==
    IF stack = <<>> THEN NoItem("Ok", stack)
    ELSE LET last == stack[Len(stack)]
         IN  CASE last.phase = 0 ->
                    IF last.rec.left > 0
                    THEN LET g == get(file, last.rec.left)
                         IN  IF g.err # "Ok"
                             THEN NoItem("panic", SetPhase(stack, 1))
                             ELSE iter_next(file, Append(SetPhase(stack, 1),
                                                         Frame(g.rec, 0)))
                    ELSE iter_next(file, SetPhase(stack, 1))
               [] last.phase = 1 ->
                    IF last.rec.table_id > 0
                    THEN [err |-> "Ok", some |-> TRUE,
                          item |-> last.rec.table_id, rec |-> last.rec,
                          stack |-> SetPhase(stack, 2)]
                    ELSE iter_next(file, SetPhase(stack, 2))
               [] last.phase = 2 ->
                    IF last.rec.right > 0
                    THEN LET g == get(file, last.rec.right)
                         IN  IF g.err # "Ok"
                             THEN NoItem("panic", SetPhase(stack, 3))
                             ELSE iter_next(file, Append(SetPhase(stack, 3),
                                                         Frame(g.rec, 0)))
                    ELSE iter_next(file, SetPhase(stack, 3))
               [] OTHER -> iter_next(file, Pop(stack))

\* The loop of iter leaving a frame in phase 2 after its right child is
\* pushed.
iter_step_stay(file, stack) ==
    LET last == stack[Len(stack)]
        same == [err |-> "Ok", some |-> FALSE, item |-> 0, rec |-> last.rec,
                 pushed |-> 0, stack |-> stack]
    IN  CASE last.phase = 0 ->
               IF last.rec.left > 0
               THEN LET g == get(file, last.rec.left)
                    IN  IF g.err # "Ok"
                        THEN [same EXCEPT !.err = "panic", !.stack = SetPhase(stack, 1)]
                        ELSE [same EXCEPT !.pushed = g.rec.id,
                                          !.stack = Append(SetPhase(stack, 1),
                                                           Frame(g.rec, 0))]
               ELSE [same EXCEPT !.stack = SetPhase(stack, 1)]
          [] last.phase = 1 ->
               IF last.rec.table_id > 0
               THEN [same EXCEPT !.some = TRUE, !.item = last.rec.table_id,
                                 !.stack = SetPhase(stack, 2)]
               ELSE [same EXCEPT !.stack = SetPhase(stack, 2)]
          [] last.phase = 2 ->
               IF last.rec.right > 0
               THEN LET g == get(file, last.rec.right)
                    IN  IF g.err # "Ok"
                        THEN [same EXCEPT !.err = "panic", !.stack = SetPhase(stack, 3)]
                        ELSE [same EXCEPT !.pushed = g.rec.id,
                                          !.stack = Append(stack, Frame(g.rec, 0))]
               ELSE [same EXCEPT !.stack = SetPhase(stack, 3)]
          [] OTHER -> [same EXCEPT !.stack = Pop(stack)]

\* The loop of iter reading the node again when it emits it.
iter_step_reread(file, stack) ==
    LET last == stack[Len(stack)]
        now == get(file, last.rec.id).rec
        same == [err |-> "Ok", some |-> FALSE, item |-> 0, rec |-> last.rec,
                 pushed |-> 0, stack |-> stack]
    IN  CASE last.phase = 0 ->
               IF last.rec.left > 0
               THEN LET g == get(file, last.rec.left)
                    IN  IF g.err # "Ok"
                        THEN [same EXCEPT !.err = "panic", !.stack = SetPhase(stack, 1)]
                        ELSE [same EXCEPT !.pushed = g.rec.id,
                                          !.stack = Append(SetPhase(stack, 1),
                                                           Frame(g.rec, 0))]
               ELSE [same EXCEPT !.stack = SetPhase(stack, 1)]
          [] last.phase = 1 ->
               IF now.table_id > 0
               THEN [same EXCEPT !.some = TRUE, !.item = now.table_id,
                                 !.stack = SetPhase(stack, 2)]
               ELSE [same EXCEPT !.stack = SetPhase(stack, 2)]
          [] last.phase = 2 ->
               IF last.rec.right > 0
               THEN LET g == get(file, last.rec.right)
                    IN  IF g.err # "Ok"
                        THEN [same EXCEPT !.err = "panic", !.stack = SetPhase(stack, 3)]
                        ELSE [same EXCEPT !.pushed = g.rec.id,
                                          !.stack = Append(SetPhase(stack, 3),
                                                           Frame(g.rec, 0))]
               ELSE [same EXCEPT !.stack = SetPhase(stack, 3)]
          [] OTHER -> [same EXCEPT !.stack = Pop(stack)]

\* One turn of the while loop of iter on a stack that is not empty: the
\* stack it leaves, the item it breaks with (some) and the node it pushes
\* (pushed, 0 for none).
iter_step(file, stack) ==
    LET last == stack[Len(stack)]
        same == [err |-> "Ok", some |-> FALSE, item |-> 0, rec |-> last.rec,
                 pushed |-> 0, stack |-> stack]
    IN  CASE last.phase = 0 ->
               IF last.rec.left > 0
               THEN LET g == get(file, last.rec.left)
                    IN  IF g.err # "Ok"
                        THEN [same EXCEPT !.err = "panic", !.stack = SetPhase(stack, 1)]
                        ELSE [same EXCEPT !.pushed = g.rec.id,
                                          !.stack = Append(SetPhase(stack, 1),
                                                           Frame(g.rec, 0))]
               ELSE [same EXCEPT !.stack = SetPhase(stack, 1)]
          [] last.phase = 1 ->
               IF last.rec.table_id > 0
               THEN [same EXCEPT !.some = TRUE, !.item = last.rec.table_id,
                                 !.stack = SetPhase(stack, 2)]
               ELSE [same EXCEPT !.stack = SetPhase(stack, 2)]
          [] last.phase = 2 ->
               IF last.rec.right > 0
               THEN LET g == get(file, last.rec.right)
                    IN  IF g.err # "Ok"
                        THEN [same EXCEPT !.err = "panic", !.stack = SetPhase(stack, 3)]
                        ELSE [same EXCEPT !.pushed = g.rec.id,
                                          !.stack = Append(SetPhase(stack, 3),
                                                           Frame(g.rec, 0))]
               ELSE [same EXCEPT !.stack = SetPhase(stack, 3)]
          [] OTHER -> [same EXCEPT !.stack = Pop(stack)]

\* One turn of the while loop of iter_between on a stack that is not empty;
\* done tells that the turn ends the pull (a break).
iter_between_step(file, value_to, stack) ==
    LET last == stack[Len(stack)]
        same == [err |-> "Ok", some |-> FALSE, item |-> 0, rec |-> last.rec,
                 pushed |-> 0, done |-> FALSE, stack |-> stack]
    IN  CASE last.phase = 0 ->
               IF last.rec.left > 0
               THEN LET g == get(file, last.rec.left)
                    IN  IF g.err # "Ok"
                        THEN [same EXCEPT !.err = "panic", !.stack = SetPhase(stack, 1)]
                        ELSE [same EXCEPT !.pushed = g.rec.id,
                                          !.stack = Append(SetPhase(stack, 1),
                                                           Frame(g.rec, 0))]
               ELSE [same EXCEPT !.stack = SetPhase(stack, 1)]
          [] last.phase = 1 ->
               IF last.rec.value < value_to
               THEN IF last.rec.table_id > 0
                    THEN [same EXCEPT !.some = TRUE, !.item = last.rec.table_id,
                                      !.done = TRUE,
                                      !.stack = SetPhase(stack, 2)]
                    ELSE [same EXCEPT !.stack = SetPhase(stack, 2)]
               ELSE [same EXCEPT !.done = TRUE, !.stack = SetPhase(stack, 2)]
          [] last.phase = 2 ->
               IF last.rec.right > 0
               THEN LET g == get(file, last.rec.right)
                    IN  IF g.err # "Ok"
                        THEN [same EXCEPT !.err = "panic", !.stack = SetPhase(stack, 3)]
                        ELSE [same EXCEPT !.pushed = g.rec.id,
                                          !.stack = Append(SetPhase(stack, 3),
                                                           Frame(g.rec, 0))]
               ELSE [same EXCEPT !.stack = SetPhase(stack, 3)]
          [] OTHER -> [same EXCEPT !.stack = Pop(stack)]

\* _build_stack_from leaving the nodes below the value to be emitted.
RECURSIVE build_stack_loop_emit(_, _, _, _)
build_stack_loop_emit(file, value, id, stack) ==
    IF id > 0
    THEN LET g == get(file, id)
         IN  IF g.err # "Ok" THEN [err |-> "panic", stack |-> stack]
             ELSE IF value < g.rec.value
                  THEN build_stack_loop_emit(file, value, g.rec.left,
                                        Append(stack, Frame(g.rec, 1)))
                  ELSE IF value > g.rec.value
                       THEN build_stack_loop_emit(file, value, g.rec.right,
                                             Append(stack, Frame(g.rec, 1)))
                       ELSE [err |-> "Ok",
                             stack |-> Append(stack, Frame(g.rec, 1))]
    ELSE [err |-> "Ok", stack |-> stack]

\* The descent of _build_stack_from from node id.
RECURSIVE build_stack_loop(_, _, _, _)
build_stack_loop(file, value, id, stack) ==
    IF id > 0
    THEN LET g == get(file, id)
         IN  IF g.err # "Ok" THEN [err |-> "panic", stack |-> stack]
             ELSE IF value < g.rec.value
                  THEN build_stack_loop(file, value, g.rec.left,
                                        Append(stack, Frame(g.rec, 1)))
                  ELSE IF value > g.rec.value
                       THEN build_stack_loop(file, value, g.rec.right,
                                             Append(stack, Frame(g.rec, 3)))
                       ELSE [err |-> "Ok",
                             stack |-> Append(stack, Frame(g.rec, 1))]
    ELSE [err |-> "Ok", stack |-> stack]

build_stack_from(file, value) ==
    LET f == get_first_id(file)
    IN  IF f.err # "Ok" THEN [err |-> "panic", stack |-> <<>>]
        ELSE build_stack_loop(file, value, f.id, <<>>)

\* The stack of iter_between at creation.
iter_between(file, value_from, value_to) == build_stack_from(file, value_from)

\* iter_between ending a pull with no item on a node with table_id 0.
RECURSIVE iter_between_next_stop_at_excluded(_, _, _)
iter_between_next_stop_at_excluded(file, value_to, stack) ==
    IF stack = <<>> THEN NoItem("Ok", stack)
    ELSE LET last == stack[Len(stack)]
         IN  CASE last.phase = 0 ->
                    IF last.rec.left > 0
                    THEN LET g == get(file, last.rec.left)
                         IN  IF g.err # "Ok"
                             THEN NoItem("panic", SetPhase(stack, 1))
                             ELSE iter_between_next_stop_at_excluded(file, value_to,
                                      Append(SetPhase(stack, 1), Frame(g.rec, 0)))
                    ELSE iter_between_next_stop_at_excluded(file, value_to,
                                                            SetPhase(stack, 1))
               [] last.phase = 1 ->
                    IF last.rec.value < value_to /\ last.rec.table_id > 0
                    THEN [err |-> "Ok", some |-> TRUE,
                          item |-> last.rec.table_id, rec |-> last.rec,
                          stack |-> SetPhase(stack, 2)]
                    ELSE NoItem("Ok", SetPhase(stack, 2))
               [] last.phase = 2 ->
                    IF last.rec.right > 0
                    THEN LET g == get(file, last.rec.right)
                         IN  IF g.err # "Ok"
                             THEN NoItem("panic", SetPhase(stack, 3))
                             ELSE iter_between_next_stop_at_excluded(file, value_to,
                                      Append(SetPhase(stack, 3), Frame(g.rec, 0)))
                    ELSE iter_between_next_stop_at_excluded(file, value_to,
                                                            SetPhase(stack, 3))
               [] OTHER -> iter_between_next_stop_at_excluded(file, value_to, Pop(stack))

\* One pull of iter_between: as iter_next, but a node whose value is not
\* below value_to ends the pull with no item.
RECURSIVE iter_between_next(_, _, _)
iter_between_next(file, value_to, stack) ==
    IF stack = <<>> THEN NoItem("Ok", stack)
    ELSE LET last == stack[Len(stack)]
         IN  CASE last.phase = 0 ->
                    IF last.rec.left > 0
                    THEN LET g == get(file, last.rec.left)
                         IN  IF g.err # "Ok"
                             THEN NoItem("panic", SetPhase(stack, 1))
                             ELSE iter_between_next(file, value_to,
                                      Append(SetPhase(stack, 1), Frame(g.rec, 0)))
                    ELSE iter_between_next(file, value_to, SetPhase(stack, 1))
               [] last.phase = 1 ->
                    IF last.rec.value < value_to
                    THEN IF last.rec.table_id > 0
                         THEN [err |-> "Ok", some |-> TRUE,
                               item |-> last.rec.table_id, rec |-> last.rec,
                               stack |-> SetPhase(stack, 2)]
                         ELSE iter_between_next(file, value_to,
                                                SetPhase(stack, 2))
                    ELSE NoItem("Ok", SetPhase(stack, 2))
               [] last.phase = 2 ->
                    IF last.rec.right > 0
                    THEN LET g == get(file, last.rec.right)
                         IN  IF g.err # "Ok"
                             THEN NoItem("panic", SetPhase(stack, 3))
                             ELSE iter_between_next(file, value_to,
                                      Append(SetPhase(stack, 3), Frame(g.rec, 0)))
                    ELSE iter_between_next(file, value_to, SetPhase(stack, 3))
               [] OTHER -> iter_between_next(file, value_to, Pop(stack))

\* A traversal pulled until its first pull with no item, as a for loop or
\* collect() does: the table ids yielded (out) and the ids of the nodes they
\* were read from (nodes).
RECURSIVE iter_drain(_, _)
iter_drain(file, stack) ==
    LET n == iter_next(file, stack)
    IN  IF n.err # "Ok" THEN [err |-> "panic", out |-> <<>>, nodes |-> <<>>]
        ELSE IF ~n.some THEN [err |-> "Ok", out |-> <<>>, nodes |-> <<>>]
        ELSE LET r == iter_drain(file, n.stack)
             IN  [err |-> r.err, out |-> <<n.item>> \o r.out,
                  nodes |-> <<n.rec.id>> \o r.nodes]

RECURSIVE iter_between_drain(_, _, _)
iter_between_drain(file, value_to, stack) ==
    LET n == iter_between_next(file, value_to, stack)
    IN  IF n.err # "Ok" THEN [err |-> "panic", out |-> <<>>, nodes |-> <<>>]
        ELSE IF ~n.some THEN [err |-> "Ok", out |-> <<>>, nodes |-> <<>>]
        ELSE LET r == iter_between_drain(file, value_to, n.stack)
             IN  [err |-> r.err, out |-> <<n.item>> \o r.out,
                  nodes |-> <<n.rec.id>> \o r.nodes]

iter_all(file) ==
    LET it == iter(file)
    IN  IF it.err # "Ok" THEN [err |-> "panic", out |-> <<>>, nodes |-> <<>>]
        ELSE iter_drain(file, it.stack)

iter_between_all(file, value_from, value_to) ==
    LET it == iter_between(file, value_from, value_to)
    IN  IF it.err # "Ok" THEN [err |-> "panic", out |-> <<>>, nodes |-> <<>>]
        ELSE iter_between_drain(file, value_to, it.stack)

----------------------------------------------------------------------------
\* The calls on the index table.

Call(op, args, r) ==
    [op |-> op, args |-> args, err |-> r.err, out |-> r.out, nodes |-> r.nodes]

NoOut(r) == [err |-> r.err, out |-> <<>>, nodes |-> <<>>]

Add(v, t) ==
    /\ Len(index) < MaxNodes
    /\ LET r == add(index, v, t)
       IN  /\ index' = r.file
           /\ ret' = Call("add", <<v, t>>, NoOut(r))
    /\ UNCHANGED <<tableVars, trav>>

Exclude(v, t) ==
    /\ LET r == exclude(index, v, t)
       IN  /\ index' = r.file
           /\ ret' = Call("exclude", <<v, t>>, NoOut(r))
    /\ UNCHANGED <<tableVars, trav>>

SearchOne(v) ==
    /\ ret' = Call("search_one", <<v>>, search_one(index, v))
    /\ UNCHANGED <<index, tableVars, trav>>

SearchMany(v) ==
    /\ ret' = Call("search_many", <<v>>, search_many(index, v))
    /\ UNCHANGED <<index, tableVars, trav>>

Iter ==
    /\ ret' = Call("iter", <<>>, iter_all(index))
    /\ UNCHANGED <<index, tableVars, trav>>

IterBetween(a, b) ==
    /\ ret' = Call("iter_between", <<a, b>>, iter_between_all(index, a, b))
    /\ UNCHANGED <<index, tableVars, trav>>

----------------------------------------------------------------------------
\* The calls on the table of Person records.

TCall(op, rec, r) ==
    [op |-> op, arg |-> rec, err |-> r.err, rec |-> r.rec, id |-> r.id,
     before |-> table]

\* Insert of a new record (id 0) or of one that carries an id already.
Insert(id, name, age) ==
    /\ Len(table) < MaxRows
    /\ LET rec == set_id(Person_new(name, age), id)
           r == insert(table, rec)
       IN  /\ table' = r.file
           /\ tret' = TCall("insert", rec, r)
           /\ written' = IF r.err = "Ok" THEN Append(written, r.rec)
                         ELSE written
    /\ UNCHANGED <<indexVars, trav>>

Update(id, name, age) ==
    /\ LET rec == set_id(Person_new(name, age), id)
           r == update(table, rec)
       IN  /\ table' = r.file
           /\ tret' = TCall("update", rec, [err |-> r.err, rec |-> rec, id |-> id])
           /\ written' = IF r.err = "Ok" THEN [written EXCEPT ![id] = rec]
                         ELSE written
    /\ UNCHANGED <<indexVars, trav>>

Get(id) ==
    /\ LET r == get(table, id)
       IN  tret' = TCall("get", [id |-> id], [err |-> r.err, rec |-> r.rec, id |-> id])
    /\ UNCHANGED <<table, written, indexVars, trav>>

\* The calls on the file itself: Table::get and Table::update of slot idx.
RawCall(op, idx, err) == [op |-> op, idx |-> idx, err |-> err]

TableGet(idx) ==
    /\ tret' = RawCall("Table_get", idx, Table_get(table, idx).err)
    /\ UNCHANGED <<table, written, indexVars, trav>>

\* write_all_at fails on no slot: the call returns Ok.
TableUpdate(idx, name, age) ==
    /\ Len(table) <= MaxRows
    /\ table' = Table_update(table,
                     as_bytes(set_id(Person_new(name, age), idx + 1)), idx)
    /\ tret' = RawCall("Table_update", idx, "Ok")
    /\ UNCHANGED <<written, indexVars, trav>>

\* The calls on a table kept in ascending order of age.
FindSorted(value) ==
    /\ tret' = [op |-> "find_sorted", value |-> value, r |-> find_sorted(table, value)]
    /\ UNCHANGED <<table, written, indexVars, trav>>

TableIterBetween(from, to) ==
    /\ tret' = [op |-> "iter_between", from |-> from, to |-> to,
                r |-> TableTrait_iter_between(table, from, to)]
    /\ UNCHANGED <<table, written, indexVars, trav>>

\* TableTrait::all on either file, collected.  prev is the outcome of the
\* call before it when that was a scan too: two scans of the same file with
\* no call between them.
NoScan == [err |-> "none", items |-> <<>>]

All ==
    /\ tret' = [op |-> "all", r |-> TableTrait_all(table),
                prev |-> IF tret.op = "all" THEN tret.r ELSE NoScan]
    /\ UNCHANGED <<table, written, indexVars, trav>>

IndexAll ==
    /\ ret' = [op |-> "all", r |-> TableTrait_all(index),
               prev |-> IF ret.op = "all" THEN ret.r ELSE NoScan]
    /\ UNCHANGED <<index, tableVars, trav>>

\* No traversal has been created.
NoTraversal == [kind |-> "none"]

\* iter turn by turn of its loop.  The traversal records the nodes pushed
\* and the nodes and items yielded so far, and counts the turns; copies
\* holds, for each node pushed, the record the file held at that time; mid
\* tells that a pull is under way (the closure is running); created is the
\* outcome of the creation.
IterStart ==
    /\ trav = NoTraversal
    /\ LET r == iter(index)
       IN  trav' = [kind |-> "iter", err |-> r.err, stack |-> r.stack,
                    pushed |-> [k \in DOMAIN r.stack |-> r.stack[k].rec.id],
                    yielded |-> <<>>, out |-> <<>>, steps |-> 0,
                    copies |-> [k \in DOMAIN r.stack |->
                                   from_bytes(index[r.stack[k].rec.id])],
                    mid |-> FALSE, created |-> r.err]
    /\ UNCHANGED <<indexVars, tableVars>>

IterStep ==
    /\ trav.kind = "iter"
    /\ trav.err = "Ok"
    /\ trav.stack # <<>>
    /\ LET r == iter_step(index, trav.stack)
       IN  trav' = [trav EXCEPT
                      !.err = r.err,
                      !.stack = r.stack,
                      !.pushed = IF r.pushed # 0 THEN Append(@, r.pushed) ELSE @,
                      !.yielded = IF r.some THEN Append(@, r.rec.id) ELSE @,
                      !.out = IF r.some THEN Append(@, r.item) ELSE @,
                      !.steps = @ + 1,
                      !.copies = IF r.pushed # 0
                                 THEN Append(@, from_bytes(index[r.pushed]))
                                 ELSE @,
                      !.mid = ~(r.some \/ r.stack = <<>> \/ r.err # "Ok")]
    /\ UNCHANGED <<indexVars, tableVars>>

\* iter_between turn by turn of its loop, with the same records.
IterBetweenCreate(a, b) ==
    /\ trav = NoTraversal
    /\ LET r == iter_between(index, a, b)
       IN  trav' = [kind |-> "iter_between_steps", err |-> r.err,
                    value_from |-> a, value_to |-> b,
                    stack |-> r.stack,
                    pushed |-> [k \in DOMAIN r.stack |-> r.stack[k].rec.id],
                    yielded |-> <<>>, out |-> <<>>, steps |-> 0,
                    copies |-> [k \in DOMAIN r.stack |->
                                   from_bytes(index[r.stack[k].rec.id])],
                    mid |-> FALSE, created |-> r.err]
    /\ UNCHANGED <<indexVars, tableVars>>

IterBetweenStep ==
    /\ trav.kind = "iter_between_steps"
    /\ trav.err = "Ok"
    /\ trav.stack # <<>>
    /\ LET r == iter_between_step(index, trav.value_to, trav.stack)
       IN  trav' = [trav EXCEPT
                      !.err = r.err,
                      !.stack = r.stack,
                      !.pushed = IF r.pushed # 0 THEN Append(@, r.pushed) ELSE @,
                      !.yielded = IF r.some THEN Append(@, r.rec.id) ELSE @,
                      !.out = IF r.some THEN Append(@, r.item) ELSE @,
                      !.steps = @ + 1,
                      !.copies = IF r.pushed # 0
                                 THEN Append(@, from_bytes(index[r.pushed]))
                                 ELSE @,
                      !.mid = ~(r.done \/ r.stack = <<>> \/ r.err # "Ok")]
    /\ UNCHANGED <<indexVars, tableVars>>

\* Whether the closure of a traversal is running: add and exclude are
\* called between pulls only (one thread).
Mid == trav.kind \in {"iter", "iter_between_steps"} /\ trav.mid

\* iter_between pull by pull.  The traversal records the outcome of its
\* last pull, whether a pull has returned no item (ended) and whether a pull
\* has been made after that (again).
IterBetweenStart(a, b) ==
    /\ trav = NoTraversal
    /\ LET r == iter_between(index, a, b)
       IN  trav' = [kind |-> "iter_between", err |-> r.err, value_to |-> b,
                    stack |-> r.stack, some |-> FALSE, item |-> 0,
                    ended |-> FALSE, again |-> FALSE]
    /\ UNCHANGED <<indexVars, tableVars>>

IterBetweenPull ==
    /\ trav.kind = "iter_between"
    /\ trav.err = "Ok"
    /\ LET r == iter_between_next(index, trav.value_to, trav.stack)
       IN  trav' = [trav EXCEPT
                      !.err = r.err,
                      !.stack = r.stack,
                      !.some = r.some,
                      !.item = r.item,
                      !.ended = @ \/ ~r.some,
                      !.again = trav.ended]
    /\ UNCHANGED <<indexVars, tableVars>>

\* insert of a new record in its two writes, and the process stopping
\* between them.  While tret.op is "insert_appended" the call is between the
\* append and the rewrite.
InFlight == tret.op = "insert_appended"

InsertAppend(name, age) ==
    /\ Len(table) < MaxRows
    /\ ~InFlight
    /\ LET rec == Person_new(name, age)
           a == Table_append(table, as_bytes(rec))
       IN  /\ table' = a.file
           /\ tret' = [op |-> "insert_appended", arg |-> rec, idx |-> a.idx,
                       before |-> table]
           /\ written' = Append(written, rec)
    /\ UNCHANGED <<indexVars, trav>>

InsertRewrite ==
    /\ InFlight
    /\ LET r == set_id(tret.arg, tret.idx + 1)
       IN  /\ table' = Table_update(table, as_bytes(r), tret.idx)
           /\ tret' = [op |-> "insert", arg |-> tret.arg, err |-> "Ok", rec |-> r,
                       id |-> r.id, before |-> tret.before]
           /\ written' = [written EXCEPT ![tret.idx + 1] = r]
    /\ UNCHANGED <<indexVars, trav>>

\* The process stops: the file stays as the append left it, and the calls
\* that follow are those of a process that opens it again.
Stop ==
    /\ InFlight
    /\ tret' = [op |-> "stopped", idx |-> tret.idx]
    /\ UNCHANGED <<table, written, indexVars, trav>>

----------------------------------------------------------------------------
\* The specifications.

NoCall == [op |-> "none", args |-> <<>>, err |-> "Ok", out |-> <<>>, nodes |-> <<>>]

NoTCall == [op |-> "none", arg |-> NoRec, err |-> "Ok", rec |-> NoRec, id |-> 0,
            before |-> <<>>]

Init ==
    /\ index = <<>>
    /\ ret = NoCall
    /\ table = <<>>
    /\ tret = NoTCall
    /\ written = <<>>
    /\ trav = NoTraversal

\* The index and its searches: any sequence of add, exclude, search_one and
\* search_many on an index table created empty.
Next ==
    \/ \E v \in Values, t \in Targets : Add(v, t)
    \/ \E v \in Values, t \in Targets : Exclude(v, t)
    \/ \E v \in Values : SearchOne(v)
    \/ \E v \in Values : SearchMany(v)

Spec == Init /\ [][Next]_vars

\* The index and its traversals: any sequence of add, exclude and whole
\* traversals on an index table created empty.
TraversalNext ==
    \/ \E v \in Values, t \in TraversalTargets : Add(v, t)
    \/ \E v \in Values, t \in TraversalTargets : Exclude(v, t)
    \/ Iter
    \/ \E a \in RangeValues, b \in RangeValues : IterBetween(a, b)

TraversalSpec == Init /\ [][TraversalNext]_vars

\* The table: any sequence of calls on a table of Person records.
TableNext ==
    \/ \E id \in 0..MaxRows, name \in Names, age \in Ages : Insert(id, name, age)
    \/ \E id \in 0..(MaxRows + 1), name \in Names, age \in Ages :
            Update(id, name, age)
    \/ \E id \in 0..(MaxRows + 1) : Get(id)

TableSpec == Init /\ [][TableNext]_vars

\* The file under a table: records inserted, then slots read and written
\* through Table itself.
RawNext ==
    \/ \E idx \in 0..MaxRows : TableUpdate(idx, 2, 33)
    \/ \E idx \in 0..MaxRows : TableGet(idx)
    \/ \E name \in Names, age \in Ages : Insert(0, name, age)

RawSpec == Init /\ [][RawNext]_vars

\* The sorted table: records inserted in ascending order of age (the
\* caller's duty), and the searches and range scans of the table.
SortedNext ==
    \/ \E age \in SortKeys :
          /\ IF table = <<>> THEN TRUE ELSE get_value(table[Len(table)]) <= age
          /\ Insert(0, 1, age)
    \/ \E value \in SortTargets : FindSorted(value)
    \/ \E from \in SortTargets, to \in SortTargets : TableIterBetween(from, to)

SortedSpec == Init /\ [][SortedNext]_vars

\* Records and nodes: any sequence of insert, update, add, exclude and all
\* on one of the two files, the other one left as created (no call touches
\* both).
RecordsNext ==
    \/ /\ index = <<>> /\ ret = NoCall
       /\ \/ \E name \in Names, age \in Ages : Insert(0, name, age)
          \/ \E id \in 0..MaxRows + 1 : Update(id, 2, 33)
          \/ All
    \/ /\ table = <<>> /\ tret = NoTCall
       /\ \/ \E v \in Values, t \in TraversalTargets : Add(v, t)
          \/ \E v \in Values, t \in TraversalTargets : Exclude(v, t)
          \/ IndexAll

RecordsSpec == Init /\ [][RecordsNext]_vars

\* iter step by step: an index built by add and exclude, then one traversal
\* of it, during which the index is not modified.
StepNext ==
    \/ trav = NoTraversal /\ \E v \in Values, t \in TraversalTargets : Add(v, t)
    \/ trav = NoTraversal /\ \E v \in Values : Exclude(v, 1)
    \/ IterStart
    \/ IterStep

StepSpec == Init /\ [][StepNext]_vars

\* iter_between pull by pull: an index built by add and exclude, then one
\* traversal of a range, pulled again and again, its end included.
PullNext ==
    \/ trav = NoTraversal /\ \E v \in Values, t \in TraversalTargets : Add(v, t)
    \/ trav = NoTraversal /\ \E v \in Values : Exclude(v, 1)
    \/ \E a \in Values, b \in Values : IterBetweenStart(a, b)
    \/ IterBetweenPull

PullSpec == Init /\ [][PullNext]_vars

\* The table with its inserts in two writes, between which the process may
\* stop; no other call runs between the two writes (one thread).
CrashNext ==
    \/ \E name \in Names : InsertAppend(name, 32)
    \/ InsertRewrite
    \/ Stop
    \/ ~InFlight /\ \E id \in 0..MaxRows : Update(id, 2, 33)
    \/ ~InFlight /\ \E id \in 0..MaxRows : Get(id)

CrashSpec == Init /\ [][CrashNext]_vars

\* The index, its whole traversal and its search by value: any sequence of
\* add, exclude, iter and search_many on an index table created empty.
OrderNext ==
    \/ \E v \in Values, t \in TraversalTargets : Add(v, t)
    \/ \E v \in Values : Exclude(v, 1)
    \/ Iter
    \/ \E v \in Values : SearchMany(v)

OrderSpec == Init /\ [][OrderNext]_vars

\* One traversal, iter or iter_between, with add and exclude called between
\* its pulls.
InterleavedNext ==
    \/ ~Mid /\ \E v \in InterleavedValues : Add(v, 1)
    \/ ~Mid /\ \E v \in InterleavedValues : Exclude(v, 1)
    \/ IterStart
    \/ IterStep
    \/ \E a \in InterleavedValues, b \in {2, 3} : IterBetweenCreate(a, b)
    \/ IterBetweenStep

InterleavedSpec == Init /\ [][InterleavedNext]_vars

----------------------------------------------------------------------------
\* Notions the properties are stated in.

Node(i) == from_bytes(index[i])

NodeIds == 1..Len(index)

Range(s) == {s[k] : k \in DOMAIN s}

NoDup(s) == \A j, k \in DOMAIN s : j # k => s[j] # s[k]

Min(S) == CHOOSE x \in S : \A y \in S : x <= y

\* The nodes that hold value v and a nonzero table_id.
LiveWith(v) == {i \in NodeIds : Node(i).value = v /\ Node(i).table_id # 0}

\* The nodes that hold the pair (v, t).
WithPair(v, t) == {i \in NodeIds : Node(i).value = v /\ Node(i).table_id = t}

\* The first element of s, if any, as a sequence.
First(s) == IF s = <<>> THEN <<>> ELSE <<s[1]>>

\* s without its first element equal to t.
RemoveFirst(s, t) ==
    IF t \in Range(s)
    THEN LET i == Min({k \in DOMAIN s : s[k] = t})
         IN  SubSeq(s, 1, i - 1) \o SubSeq(s, i + 1, Len(s))
    ELSE s

\* The nodes reachable from node id (itself included; none from 0).
RECURSIVE Subtree(_)
Subtree(id) ==
    IF id = 0 \/ id > Len(index) THEN {}
    ELSE {id} \cup Subtree(Node(id).left) \cup Subtree(Node(id).right)

\* The yields of a call are those of the nodes it names, each node once.
YieldsOf(r) ==
    /\ Len(r.out) = Len(r.nodes)
    /\ NoDup(r.nodes)
    /\ \A k \in DOMAIN r.nodes :
          /\ r.nodes[k] \in NodeIds
          /\ r.out[k] = Node(r.nodes[k]).table_id

----------------------------------------------------------------------------
\* C1: search_many(v) yields the table_id of every node that holds v and a
\* nonzero table_id, each such node once, and nothing else; right after
\* add(v, t) with t # 0 it yields t.
C1_SearchManyComplete ==
    /\ ret.op = "search_many" =>
          /\ YieldsOf(ret)
          /\ Range(ret.nodes) = LiveWith(ret.args[1])
    /\ (ret.op = "add" /\ ret.err = "Ok" /\ ret.args[2] # 0) =>
          ret.args[2] \in Range(search_many(index, ret.args[1]).out)

\* search_many has yielded two equal-valued nodes that another value was
\* inserted between.
C1_Witness ==
    /\ ret.op = "search_many"
    /\ Len(ret.out) = 2
    /\ ret.nodes = <<1, 3>>
    /\ Node(2).value # ret.args[1]

\* C2 as stated: after a successful exclude(v, t) neither search_one(v) nor
\* search_many(v) yields t.
C2_Original ==
    (ret.op = "exclude" /\ ret.err = "Ok") =>
        /\ ret.args[2] \notin Range(search_many(index, ret.args[1]).out)
        /\ ret.args[2] \notin Range(search_one(index, ret.args[1]).out)

\* C2 as amended: a successful exclude(v, t) takes the first t out of the
\* yields of search_many(v), so t is not yielded again when one node held the
\* pair (v, t); search_one(v) is the first of the yields that remain; for
\* every other value search_one and search_many are as before.
C2_ExcludeRemovesOne ==
    [][(ret'.op = "exclude" /\ ret'.err = "Ok") =>
         LET v == ret'.args[1]
             t == ret'.args[2]
             before == search_many(index, v).out
             after == search_many(index', v).out
         IN  /\ after = RemoveFirst(before, t)
             /\ Cardinality(WithPair(v, t)) = 1 =>
                   /\ t \notin Range(after)
                   /\ t \notin Range(search_one(index', v).out)
             /\ search_one(index', v).out = First(after)
             /\ \A w \in Values \ {v} :
                   /\ search_many(index', w) = search_many(index, w)
                   /\ search_one(index', w) = search_one(index, w)
      ]_vars

\* exclude(v, t) has succeeded on the one node with the pair (v, t), t # 0,
\* with another target of v and another value live in the index.
C2_Witness ==
    /\ ret.op = "exclude" /\ ret.err = "Ok" /\ ret.args[2] # 0
    /\ WithPair(ret.args[1], ret.args[2]) = {}
    /\ LiveWith(ret.args[1]) # {}
    /\ \E w \in Values \ {ret.args[1]} : LiveWith(w) # {}

\* C3: the keys of the nodes iter() yields are non-decreasing in the order
\* of emission.
C3_IterSorted ==
    ret.op = "iter" =>
        /\ YieldsOf(ret)
        /\ \A j, k \in DOMAIN ret.nodes :
              j < k => Node(ret.nodes[j]).value <= Node(ret.nodes[k]).value

\* iter() has yielded three nodes, of which the root is neither the first
\* nor holds the only key.
C3_Witness ==
    /\ ret.op = "iter"
    /\ Len(ret.nodes) = 3
    /\ ret.nodes[1] # 1
    /\ Node(ret.nodes[1]).value < Node(ret.nodes[3]).value

\* Whether a key lies in [a, b).
InRange(i, a, b) == a <= Node(i).value /\ Node(i).value < b

\* C4: on a non-empty index iter_between(a, b) yields the subsequence of
\* iter() of the live nodes with a <= key < b, in the same order.
C4_IterBetweenIsSubsequence ==
    (ret.op = "iter_between" /\ Len(index) > 0) =>
        LET a == ret.args[1]
            b == ret.args[2]
            all == iter_all(index)
            Keep(i) == InRange(i, a, b)
        IN  /\ ret.err = "Ok"
            /\ YieldsOf(ret)
            /\ ret.nodes = SelectSeq(all.nodes, Keep)
            /\ a >= b => ret.out = <<>>

\* iter_between(a, b) has yielded some nodes and left out live nodes below a
\* and live nodes at or above b.
C4_Witness ==
    /\ ret.op = "iter_between"
    /\ ret.out # <<>>
    /\ \E i \in NodeIds : Node(i).table_id # 0 /\ Node(i).value < ret.args[1]
    /\ \E i \in NodeIds : Node(i).table_id # 0 /\ Node(i).value >= ret.args[2]

\* C5: insert of a record with id 0 succeeds, returns the count before the
\* insert plus 1, raises the count by 1, sets the record's id, and get of that
\* id returns the record inserted with that id.
C5_InsertAssignsId ==
    (tret.op = "insert" /\ tret.arg.id = 0) =>
        /\ tret.err = "Ok"
        /\ tret.id = Len(tret.before) + 1
        /\ Len(table) = Len(tret.before) + 1
        /\ tret.rec = set_id(tret.arg, tret.id)
        /\ get(table, tret.id) = [err |-> "Ok", rec |-> set_id(tret.arg, tret.id)]

\* A record has been inserted into a table that held records already.
C5_Witness ==
    /\ tret.op = "insert" /\ tret.arg.id = 0 /\ tret.err = "Ok"
    /\ Len(tret.before) >= 1

\* C6: insert of a record whose id is not 0 fails with InvalidInput and
\* leaves the table and the record as they were.
C6_InsertRejectsId ==
    (tret.op = "insert" /\ tret.arg.id # 0) =>
        /\ tret.err = "InvalidInput"
        /\ table = tret.before
        /\ tret.rec = tret.arg

\* A record that carries an id has been refused by a table that holds
\* records.
C6_Witness ==
    /\ tret.op = "insert" /\ tret.arg.id # 0 /\ tret.err = "InvalidInput"
    /\ Len(table) >= 1

\* C7: every node reachable through a node's left holds a smaller value,
\* every node reachable through its right a value at least as large.
C7_TreeShape ==
    \A n \in NodeIds :
        /\ \A m \in Subtree(Node(n).left) : Node(m).value < Node(n).value
        /\ \A m \in Subtree(Node(n).right) : Node(m).value >= Node(n).value

\* A tree of three nodes with a left child, and an equal value below the
\* right of its holder, after an exclude.
C7_Witness ==
    /\ Len(index) = 3
    /\ ret.op = "exclude" /\ ret.err = "Ok"
    /\ \E n \in NodeIds : Node(n).left # 0
    /\ \E n \in NodeIds :
          \E m \in Subtree(Node(n).right) : Node(m).value = Node(n).value

\* C8 as stated: exclude(v, t) sets the table_id of the first node with the
\* pair (v, t) to 0 and changes nothing else; with no such node it fails
\* with NotFound and leaves the file as it was.
C8_ExcludeFrame ==
    [][ret'.op = "exclude" =>
         LET v == ret'.args[1]
             t == ret'.args[2]
             P == WithPair(v, t)
         IN  IF P # {}
             THEN /\ ret'.err = "Ok"
                  /\ Len(index') = Len(index)
                  /\ \A i \in NodeIds :
                        index'[i] =
                            IF i = Min(P)
                            THEN as_bytes([Node(i) EXCEPT !.table_id = 0])
                            ELSE index[i]
             ELSE /\ ret'.err = "NotFound"
                  /\ index' = index
      ]_vars

\* C9: on a non-empty index search_one(v) returns the first yield of
\* search_many(v), the table_id of the first live node with value v on the
\* descent (the oldest: a child is newer than its parent), and fails with
\* NotFound exactly when no node holds v and a nonzero table_id.
C9_SearchOneFirst ==
    (ret.op = "search_one" /\ Len(index) > 0) =>
        LET v == ret.args[1]
        IN  /\ ret.err \in {"Ok", "NotFound"}
            /\ ret.err = "NotFound" <=> LiveWith(v) = {}
            /\ ret.err = "NotFound" => ret.out = <<>>
            /\ ret.err = "Ok" =>
                  /\ ret.nodes = <<Min(LiveWith(v))>>
                  /\ ret.out = <<Node(Min(LiveWith(v))).table_id>>
                  /\ ret.out = First(search_many(index, v).out)

\* search_one(v) has returned the second node with value v, the first being
\* excluded.
C9_Witness ==
    /\ ret.op = "search_one" /\ ret.err = "Ok"
    /\ \E i \in NodeIds :
          /\ i < ret.nodes[1]
          /\ Node(i).value = ret.args[1]
          /\ Node(i).table_id = 0

\* C10 as stated: on an empty index search_one and exclude return NotFound,
\* search_many, iter and iter_between yield nothing, none aborts, and the
\* file stays empty.
C10_EmptyIndexNoAbort ==
    (Len(index) = 0 /\ ret.op # "none") =>
        /\ ret.op \in {"search_one", "exclude"} => ret.err = "NotFound"
        /\ ret.op \in {"search_many", "iter", "iter_between"} =>
              ret.err = "Ok" /\ ret.out = <<>>


\* C11 as stated: Table::get and Table::update of a slot at or past the
\* count fail with NotFound and leave the count and every block as they
\* were.
C11_OutOfRangeSlotFails ==
    [][(tret'.op \in {"Table_get", "Table_update"} /\ tret'.idx >= Len(table)) =>
         /\ tret'.err = "NotFound"
         /\ table' = table
      ]_vars

\* C12: get(id) fails with NotFound exactly when id is 0 or above the count;
\* otherwise it returns the record of slot id - 1, which is the record that
\* insert or update wrote there last.
C12_GetById ==
    /\ Len(written) = Len(table)
    /\ tret.op = "get" =>
          LET id == tret.arg.id
          IN  /\ tret.err \in {"Ok", "NotFound"}
              /\ tret.err = "NotFound" <=> (id = 0 \/ id > Len(table))
              /\ tret.err = "Ok" =>
                    /\ tret.rec = from_bytes(table[id])
                    /\ tret.rec = written[id]

\* get has returned the record of the second slot, which an update has
\* written since its insert.
C12_Witness ==
    /\ tret.op = "get" /\ tret.err = "Ok"
    /\ tret.arg.id = 2
    /\ Len(table) = 3
    /\ tret.rec.age # from_bytes(table[1]).age
    /\ tret.rec.name # from_bytes(table[3]).name

\* C13: update of a record with id i in 1..count writes slot i - 1 (get(i)
\* returns the record) and leaves the count and the other slots; with id 0
\* or above the count it fails with NotFound and leaves the file.
C13_UpdateFrame ==
    tret.op = "update" =>
        LET i == tret.arg.id
        IN  IF i >= 1 /\ i <= Len(tret.before)
            THEN /\ tret.err = "Ok"
                 /\ Len(table) = Len(tret.before)
                 /\ \A k \in 1..Len(table) :
                       table[k] = IF k = i THEN as_bytes(tret.arg)
                                  ELSE tret.before[k]
                 /\ get(table, i) = [err |-> "Ok", rec |-> tret.arg]
            ELSE /\ tret.err = "NotFound"
                 /\ table = tret.before

\* update has changed the middle one of three slots.
C13_Witness ==
    /\ tret.op = "update" /\ tret.err = "Ok"
    /\ tret.arg.id = 2
    /\ Len(table) = 3
    /\ table[2] # tret.before[2]

\* The age of the record of slot i (from 0).
KeyAt(i) == get_value(table[i + 1])

\* The lower bound of a linear scan: the first slot whose age is at least
\* value, or the count if there is none.
LinearLowerBound(value) ==
    Min({i \in 0..Len(table) - 1 : KeyAt(i) >= value} \cup {Len(table)})

Sorted == \A i, j \in 0..Len(table) - 1 : i <= j => KeyAt(i) <= KeyAt(j)

\* C14: on a table in ascending order of the extracted value find_sorted
\* returns, after at most count reads, the first slot whose value is at
\* least the target, or the count if there is none.
C14_FindSortedLowerBound ==
    (tret.op = "find_sorted" /\ Sorted) =>
        /\ tret.r.err = "Ok"
        /\ tret.r.probes <= Len(table)
        /\ tret.r.idx = LinearLowerBound(tret.value)

\* find_sorted has returned the first of two equal ages, which is neither
\* the first slot nor the last.
C14_Witness ==
    /\ tret.op = "find_sorted"
    /\ Len(table) = 3
    /\ tret.r.idx = 1
    /\ KeyAt(1) = tret.value
    /\ KeyAt(2) = tret.value
    /\ KeyAt(0) < tret.value

\* C15: on a table in ascending order of the extracted value iter_between
\* yields the records with from <= value < to in slot order, and nothing
\* when from >= to.
C15_RangeBySortedField ==
    (tret.op = "iter_between" /\ Sorted) =>
        LET in == {i \in 0..Len(table) - 1 : tret.from <= KeyAt(i) /\ KeyAt(i) < tret.to}
            items == tret.r.items
        IN  /\ tret.r.err = "Ok"
            /\ Len(items) = Cardinality(in)
            /\ \A k \in DOMAIN items :
                  /\ items[k].id - 1 \in in
                  /\ items[k] = from_bytes(table[items[k].id])
            /\ \A j, k \in DOMAIN items : j < k => items[j].id < items[k].id
            /\ tret.from >= tret.to => items = <<>>

\* iter_between has yielded the one record in range of a table that holds a
\* record below the range and a record at its upper bound.
C15_Witness ==
    /\ tret.op = "iter_between"
    /\ Len(table) = 3
    /\ Len(tret.r.items) = 1
    /\ tret.r.items[1].id = 2
    /\ KeyAt(2) = tret.to
    /\ KeyAt(0) < tret.from

\* The blocks of a file carry the ids 1, 2, ... in slot order.
IdsInSlotOrder(file) == \A k \in DOMAIN file : from_bytes(file[k]).id = k

\* A scan of a file: its records in slot order, the k-th with id k, and the
\* same as the scan just before it.
ScanOf(call, file) ==
    call.op = "all" =>
        /\ call.r.err = "Ok"
        /\ Len(call.r.items) = Len(file)
        /\ \A k \in DOMAIN call.r.items :
              call.r.items[k].id = k /\ call.r.items[k] = from_bytes(file[k])
        /\ call.prev # NoScan => call.prev = call.r

\* C16: after any sequence of insert, update, add and exclude the record of
\* slot i carries the id i + 1, the count of a file never decreases, and all
\* yields count records, the k-th with id k, twice the same.
C16_IdentityInvariant ==
    /\ [](/\ IdsInSlotOrder(table) /\ IdsInSlotOrder(index)
          /\ ScanOf(tret, table) /\ ScanOf(ret, index))
    /\ [][Len(table') >= Len(table) /\ Len(index') >= Len(index)]_vars

\* A table of three records, one of them updated, has been scanned twice.
C16_Witness ==
    /\ tret.op = "all"
    /\ tret.prev # NoScan
    /\ Len(tret.r.items) = 3
    /\ written[2] # written[3]
    /\ tret.r.items[2].age # tret.r.items[1].age

\* The end of the descent 'v < value goes left, otherwise right' from node
\* id: the node whose child on that side is absent, and the side.
RECURSIVE DescentEnd(_, _)
DescentEnd(id, v) ==
    LET side == IF v < Node(id).value THEN "left" ELSE "right"
        child == Node(id)[side]
    IN  IF child = 0 THEN [id |-> id, side |-> side] ELSE DescentEnd(child, v)

\* C17: add(v, t) on an index of n nodes appends the node {n + 1, v, t, 0,
\* 0}; when n > 0 it sets the absent child at the end of the descent from
\* node 1 to n + 1 and changes no other field of the n nodes, so no nonzero
\* pointer is overwritten; when n = 0 it writes nothing else.
C17_AddFrame ==
    [][ret'.op = "add" =>
         LET n == Len(index)
             v == ret'.args[1]
             t == ret'.args[2]
         IN  /\ ret'.err = "Ok"
             /\ Len(index') = n + 1
             /\ from_bytes(index'[n + 1]) =
                   [id |-> n + 1, value |-> v, table_id |-> t, left |-> 0, right |-> 0]
             /\ n = 0 => index' = <<as_bytes(set_id(TableIndex_new(v, t), 1))>>
             /\ n > 0 =>
                   LET e == DescentEnd(1, v)
                   IN  /\ Node(e.id)[e.side] = 0
                       /\ \A k \in 1..n :
                             index'[k] = IF k = e.id
                                         THEN as_bytes([Node(k) EXCEPT ![e.side] = n + 1])
                                         ELSE index[k]
      ]_vars

\* add has linked the third node two levels down, as the left child of the
\* right child of the root.
C17_Witness ==
    /\ ret.op = "add"
    /\ Len(index) = 3
    /\ Node(1).right = 2
    /\ Node(2).left = 3
    /\ Node(1).left = 0

Live == {i \in NodeIds : Node(i).table_id # 0}

\* The frames that are on the stack before and after a step keep their node
\* and their phase, or go on to the next phase; a frame is pushed in phase 0
\* and popped in phase 3.
PhasesAdvance(stack, stack2) ==
    /\ \A k \in DOMAIN stack \cap DOMAIN stack2 :
          /\ stack2[k].rec = stack[k].rec
          /\ stack2[k].phase \in {stack[k].phase, stack[k].phase + 1}
    /\ Len(stack2) > Len(stack) =>
          Len(stack2) = Len(stack) + 1 /\ stack2[Len(stack2)].phase = 0
    /\ Len(stack2) < Len(stack) =>
          Len(stack2) = Len(stack) - 1 /\ stack[Len(stack)].phase = 3

\* C18: on a non-empty index that is not modified meanwhile, iter pushes
\* each node at most once, moves each frame through the phases 0, 1, 2, 3 in
\* that order, empties the stack after at most four turns of its loop for
\* each node, and by then has yielded the table_id of every live node once
\* and of no node with table_id 0.
C18_IterTerminates ==
    /\ []((trav.kind = "iter" /\ index # <<>>) =>
            /\ trav.err = "Ok"
            /\ NoDup(trav.pushed)
            /\ trav.steps <= 4 * Len(index)
            /\ NoDup(trav.yielded)
            /\ Range(trav.yielded) \subseteq Live
            /\ trav.out = [k \in DOMAIN trav.yielded |-> Node(trav.yielded[k]).table_id]
            /\ trav.stack = <<>> =>
                  /\ Range(trav.yielded) = Live
                  /\ Len(trav.out) = Cardinality(Live))
    /\ [][(trav.kind = "iter" /\ trav'.kind = "iter") =>
            PhasesAdvance(trav.stack, trav'.stack)]_vars

\* iter has emptied its stack on an index of three nodes whose root is
\* excluded and has a live node on either side.
C18_Witness ==
    /\ trav.kind = "iter"
    /\ trav.stack = <<>>
    /\ Len(index) = 3
    /\ Node(1).table_id = 0
    /\ Node(1).left # 0
    /\ Node(1).right # 0
    /\ Len(trav.out) = 2

\* C19: once a pull of iter_between(a, b) has returned no item, every later
\* pull of that traversal returns no item, whatever frames are left on the
\* stack.
C19_IterBetweenStops ==
    (trav.kind = "iter_between" /\ index # <<>> /\ trav.again) =>
        /\ trav.err = "Ok"
        /\ ~trav.some
        /\ trav.item = 0

\* A pull has been made after the end of a traversal that stopped at a node
\* with a live node above it, with frames still on the stack.
C19_Witness ==
    /\ trav.kind = "iter_between"
    /\ trav.again
    /\ trav.stack # <<>>
    /\ \E i \in Live : Node(i).value > trav.value_to
    /\ \E i \in Live : Node(i).value < trav.value_to

\* Slot k - 1 stores the id 0 though no insert is between its two writes
\* there.
Torn(k) == from_bytes(table[k]).id = 0 /\ ~(InFlight /\ k = Len(table))

TornAfter(k) == from_bytes(table'[k]).id = 0

\* Between the two writes of insert the count is raised and the new slot
\* stores the id 0; the second write gives the file of the whole insert.
InsertInTwoWrites ==
    /\ InFlight =>
          /\ Len(table) = Len(tret.before) + 1
          /\ tret.idx = Len(tret.before)
          /\ from_bytes(table[Len(table)]) = set_id(tret.arg, 0)
    /\ (tret.op = "insert" /\ tret.err = "Ok") =>
          table = insert(tret.before, tret.arg).file

\* get of a torn slot returns its record, the id 0 in it.
GetOfTorn ==
    (tret.op = "get" /\ tret.arg.id \in DOMAIN table) =>
        (Torn(tret.arg.id) =>
            /\ tret.err = "Ok"
            /\ tret.rec.id = 0
            /\ tret.rec = from_bytes(table[tret.arg.id]))

\* C20 as stated: between the two writes of insert the count is raised and
\* the slot stores the id 0; when the process stops there, the slot stores
\* the id 0 after every later call, and get of slot + 1 returns a record with
\* the id 0.
C20_Original ==
    /\ [](InsertInTwoWrites /\ GetOfTorn)
    /\ [][tret'.op = "stopped" => table' = table /\ Torn(Len(table))']_vars
    /\ [][\A k \in DOMAIN table : Torn(k) => TornAfter(k)]_vars

\* C20 as amended: the same, but the slot stores the id 0 after every later
\* call other than a successful update of a record that carries the id
\* slot + 1, which overwrites the block, id included.
C20_TornInsertPersists ==
    /\ [](InsertInTwoWrites /\ GetOfTorn)
    /\ [][tret'.op = "stopped" => table' = table /\ Torn(Len(table))']_vars
    /\ [][\A k \in DOMAIN table :
            Torn(k) =>
               IF tret'.op = "update" /\ tret'.err = "Ok" /\ tret'.arg.id = k
               THEN table'[k] = as_bytes(tret'.arg)
               ELSE TornAfter(k) /\ table'[k] = table[k]]_vars

\* get has returned the record of a torn slot, with the id 0, from a table
\* to which a record has been inserted since the process stopped.
C20_Witness ==
    /\ tret.op = "get"
    /\ tret.err = "Ok"
    /\ tret.arg.id = 1
    /\ tret.rec.id = 0
    /\ Len(table) = 2
    /\ from_bytes(table[2]).id = 2

\* The child pointers that hold the id i, as pairs of holder and side.
Parents(i) ==
    {p \in NodeIds \X {"left", "right"} : Node(p[1])[p[2]] = i}

\* C21: after any sequence of add and exclude the first record is node 1;
\* every child pointer is 0 or an id in 2..count above the id of the node
\* that holds it; every node but node 1 is held by exactly one child
\* pointer; and every node is reachable from node 1.
C21_IndexIsTree ==
    index # <<>> =>
        /\ get_first_id(index) = [err |-> "Ok", id |-> 1]
        /\ \A k \in NodeIds : Node(k).id = k
        /\ \A k \in NodeIds : \A side \in {"left", "right"} :
              \/ Node(k)[side] = 0
              \/ /\ Node(k)[side] \in 2..Len(index)
                 /\ Node(k)[side] > k
        /\ Parents(1) = {}
        /\ \A i \in NodeIds \ {1} : Cardinality(Parents(i)) = 1
        /\ Subtree(1) = NodeIds

\* An index of three nodes in a chain, left then right, whose middle node
\* has been excluded.
C21_Witness ==
    /\ ret.op = "exclude"
    /\ ret.err = "Ok"
    /\ Len(index) = 3
    /\ Node(1).left = 2
    /\ Node(2).right = 3
    /\ Node(2).table_id = 0
    /\ Node(3).table_id # 0

\* The index after add (10, 100), (5, 200), (15, 300), (5, 400).
ExampleIndex ==
    add(add(add(add(<<>>, 10, 100).file, 5, 200).file, 15, 300).file, 5, 400).file

\* The nodes of equal value among those yielded come oldest first.
TiesInInsertionOrder(nodes) ==
    \A j, k \in DOMAIN nodes :
        (j < k /\ Node(nodes[j]).value = Node(nodes[k]).value) => nodes[j] < nodes[k]

\* C22: iter and search_many(v) yield the live nodes of equal value in the
\* order of their insertion, whatever the order the values were added in;
\* after add (10, 100), (5, 200), (15, 300), (5, 400) iter yields 200, 400,
\* 100, 300 and search_many(5) yields 200, 400.
C22_TiesStable ==
    /\ ret.op = "iter" =>
          /\ YieldsOf(ret)
          /\ Range(ret.nodes) = {i \in NodeIds : Node(i).table_id # 0}
          /\ TiesInInsertionOrder(ret.nodes)
    /\ ret.op = "search_many" =>
          /\ YieldsOf(ret)
          /\ Range(ret.nodes) = LiveWith(ret.args[1])
          /\ TiesInInsertionOrder(ret.nodes)
    /\ iter_all(ExampleIndex).out = <<200, 400, 100, 300>>
    /\ search_many(ExampleIndex, 5).out = <<200, 400>>

\* iter has yielded two live nodes of equal value, the older one first,
\* after a node added between them with a smaller value.
C22_Witness ==
    /\ ret.op = "iter"
    /\ ret.nodes = <<2, 1, 3>>
    /\ Node(1).value = Node(3).value
    /\ Node(2).value < Node(1).value

\* The record the file held for node id when the traversal pushed it.
CopyOf(id) == trav.copies[CHOOSE k \in DOMAIN trav.copies : trav.copies[k].id = id]

\* The frame of node p has left phase 1, where a node is emitted.
Emitted(p) ==
    \A k \in DOMAIN trav.stack :
        trav.stack[k].rec.id = p => trav.stack[k].phase >= 2

\* The values that the traversal is to yield.
InWindow(v) ==
    trav.kind = "iter" \/ (trav.value_from <= v /\ v < trav.value_to)

====
